---------------------------- MODULE Spec2Model ----------------------------
(***************************************************************************)
(* A model of instant-xml: the entity codec (encode / decode), the         *)
(* serializer's namespace tracking and tag writing, and the value          *)
(* adapters' accumulators.                                                 *)
(*                                                                         *)
(* A Rust `str` is modelled as the sequence of its UTF-8 bytes (numbers in *)
(* 0..255); a `char` is its code point.  Offsets are 0-based as in the     *)
(* source, sequences 1-based as in TLA+.                                   *)
(***************************************************************************)
EXTENDS Integers, Sequences, FiniteSets, TLC

VARIABLES
    \* the codec
    codec_input,      \* the string handed to the codec
    encode_result,    \* encode(codec_input), once computed
    decode_result,    \* decode(codec_input), once computed
    roundtrip_result, \* decode(encode(codec_input)), once computed
    \* the serializer
    serializer, \* the fields of Serializer
    open,       \* the elements whose serialize is running, outermost first
    last,       \* what the last step of the serialization was
    n_elems,    \* the elements opened so far
    \* one field's accumulator
    de_ty,      \* the type of the field
    de_acc,     \* its accumulator
    de_calls,   \* the calls of deserialize made
    de_text,    \* what take_str() returned to the last call
    de_had,     \* whether the accumulator held a value before the last call
    de_result,  \* what the last call returned
    de_log,     \* the texts of the calls that returned Ok, in order
    de_final,   \* what try_done returned, once called
    \* one serialize of a display-based scalar
    disp_field,  \* the field Id handed to serialize, if any
    disp_value,  \* the text of the value
    disp_calls,  \* the calls made on the serializer, in order
    disp_result, \* what serialize returned
    \* one value of the forwarding enum Foo
    fw_value,   \* the value
    fw_doc,     \* the element its serialize wrote, once written
    fw_back,    \* what deserializing an element as Foo returned
    \* the calls of set_field_context and consume_field_context
    ctx_last,   \* the last call: its argument, the context pending before
                \* it, and what it returned
    ctx_calls   \* the calls made

codecVars == <<codec_input, encode_result, decode_result, roundtrip_result>>
serVars == <<serializer, open, last, n_elems>>
deVars == <<de_ty, de_acc, de_calls, de_text, de_had, de_result, de_log,
            de_final>>
dispVars == <<disp_field, disp_value, disp_calls, disp_result>>
fwVars == <<fw_value, fw_doc, fw_back>>
ctxVars == <<ctx_last, ctx_calls>>
restVars == <<dispVars, fwVars, ctxVars>>
vars == <<codecVars, serVars, deVars, restVars>>

(***************************************************************************)
(* Bounds of the model.                                                    *)
(***************************************************************************)
\* the number of pieces an input string of the codec is built of
MaxPieces == 3
\* the depth elements are nested to
MaxDepth == 3
\* the elements one document holds
MaxElems == 4
\* the occurrences one field's accumulator is offered
MaxCalls == 3
\* the calls of set_field_context and consume_field_context made
MaxCtxCalls == 4

(***************************************************************************)
(* Characters the codec names.                                             *)
(***************************************************************************)
AMP == 38
QUOT == 34
LT == 60
GT == 62
APOS == 39
SEMI == 59

\* "amp", "apos", "gt", "lt", "quot" as bytes
EntAmp == <<97, 109, 112>>
EntApos == <<97, 112, 111, 115>>
EntGt == <<103, 116>>
EntLt == <<108, 116>>
EntQuot == <<113, 117, 111, 116>>

(***************************************************************************)
(* str: UTF-8                                                              *)
(***************************************************************************)
\* char::encode_utf8
Utf8(c) ==
    IF c < 128 THEN <<c>>
    ELSE IF c < 2048 THEN <<192 + (c \div 64), 128 + (c % 64)>>
    ELSE IF c < 65536
    THEN <<224 + (c \div 4096), 128 + ((c \div 64) % 64), 128 + (c % 64)>>
    ELSE <<240 + (c \div 262144), 128 + ((c \div 4096) % 64),
           128 + ((c \div 64) % 64), 128 + (c % 64)>>

\* a continuation byte 10xxxxxx
IsCont(b) == b >= 128 /\ b < 192

\* str::is_char_boundary(i), i a 0-based byte offset
IsCharBoundary(s, i) ==
    \/ i = 0
    \/ i = Len(s)
    \/ (i > 0 /\ i < Len(s) /\ ~IsCont(s[i + 1]))

\* str::get(a..b): none when a > b, b > len, or a or b is inside a character
StrGet(s, a, b) ==
    IF a <= b /\ b <= Len(s) /\ IsCharBoundary(s, a) /\ IsCharBoundary(s, b)
    THEN [some |-> TRUE, val |-> SubSeq(s, a + 1, b)]
    ELSE [some |-> FALSE, val |-> <<>>]

\* the width of the character whose first byte is b
Utf8Width(b) ==
    IF b < 128 THEN 1 ELSE IF b < 224 THEN 2 ELSE IF b < 240 THEN 3 ELSE 4

\* str::chars(): the code points of a well-formed UTF-8 string
RECURSIVE Chars(_)
Chars(s) ==
    IF s = <<>> THEN <<>>
    ELSE LET w == Utf8Width(s[1])
             c == IF w = 1 THEN s[1]
                  ELSE IF w = 2 THEN (s[1] - 192) * 64 + (s[2] - 128)
                  ELSE IF w = 3
                  THEN (s[1] - 224) * 4096 + (s[2] - 128) * 64 + (s[3] - 128)
                  ELSE (s[1] - 240) * 262144 + (s[2] - 128) * 4096
                       + (s[3] - 128) * 64 + (s[4] - 128)
         IN  <<c>> \o Chars(SubSeq(s, w + 1, Len(s)))

\* U+FFFD REPLACEMENT CHARACTER, as String::from_utf8_lossy writes it
Replacement == <<239, 191, 189>>

\* the continuation bytes at the head of s, at most n of them
RECURSIVE ContRun(_, _)
ContRun(s, n) ==
    IF n = 0 \/ s = <<>> \/ ~IsCont(s[1]) THEN 0
    ELSE 1 + ContRun(Tail(s), n - 1)

\* String::from_utf8_lossy(bytes): the complete characters kept, a first
\* byte with too few continuation bytes after it replaced, together with
\* those, by one U+FFFD, and any other byte by one U+FFFD
RECURSIVE Utf8Lossy(_)
Utf8Lossy(bytes) ==
    IF bytes = <<>> THEN <<>>
    ELSE LET b == bytes[1]
             w == Utf8Width(b)
             run == ContRun(Tail(bytes), w - 1)
         IN  IF b < 128 THEN <<b>> \o Utf8Lossy(Tail(bytes))
             ELSE IF b < 194 \/ b > 244
             THEN Replacement \o Utf8Lossy(Tail(bytes))
             ELSE IF run = w - 1
             THEN SubSeq(bytes, 1, w)
                  \o Utf8Lossy(SubSeq(bytes, w + 1, Len(bytes)))
             ELSE Replacement
                  \o Utf8Lossy(SubSeq(bytes, run + 2, Len(bytes)))

(***************************************************************************)
(* Result<Cow<str>, Error> of the codec, and a panic of an unwrap()        *)
(***************************************************************************)
NoResult == [kind |-> "None", cow |-> "None", val |-> <<>>,
             err |-> "None", arg |-> <<>>]
Panicked == [kind |-> "Panic", cow |-> "None", val |-> <<>>,
             err |-> "None", arg |-> <<>>]
OkCow(cow, val) == [kind |-> "Ok", cow |-> cow, val |-> val,
                    err |-> "None", arg |-> <<>>]
ErrInvalidEntity(arg) == [kind |-> "Err", cow |-> "None", val |-> <<>>,
                          err |-> "InvalidEntity", arg |-> arg]

(***************************************************************************)
(* encode                                                                  *)
(***************************************************************************)
\* the match of encode: the entity a character is replaced by, <<>> for none
EncodeTo(c) ==
    IF c = AMP THEN <<AMP>> \o EntAmp \o <<SEMI>>
    ELSE IF c = QUOT THEN <<AMP>> \o EntQuot \o <<SEMI>>
    ELSE IF c = LT THEN <<AMP>> \o EntLt \o <<SEMI>>
    ELSE IF c = GT THEN <<AMP>> \o EntGt \o <<SEMI>>
    ELSE IF c = APOS THEN <<AMP>> \o EntApos \o <<SEMI>>
    ELSE <<>>

\* the position a substitution is made at: `start` of (start, c) in
\* input.chars().enumerate(), the index of the character c
EncodeStart(charIndex, byteOffset) == charIndex

\* the loop of encode over input.chars().enumerate(); k is the 1-based
\* index of the next character, off its byte offset
RECURSIVE EncodeLoop(_, _, _, _, _, _)
EncodeLoop(input, cs, k, off, last_end, result) ==
    IF k > Len(cs)
    THEN [panic |-> FALSE, last_end |-> last_end, result |-> result]
    ELSE LET c == cs[k]
             start == EncodeStart(k - 1, off)
             to == EncodeTo(c)
             next == off + Len(Utf8(c))
         IN  IF to = <<>>
             THEN EncodeLoop(input, cs, k + 1, next, last_end, result)
             ELSE LET piece == StrGet(input, last_end, start)
                  IN  IF ~piece.some
                      THEN [panic |-> TRUE, last_end |-> last_end,
                            result |-> result]
                      ELSE EncodeLoop(input, cs, k + 1, next, start + 1,
                                      result \o piece.val \o to)

\* encode(input): Ok(Cow::Borrowed(input)), Ok(Cow::Owned(result)), or a
\* panic of an unwrap()
encode(input) ==
    LET r == EncodeLoop(input, Chars(input), 1, 0, 0, <<>>)
    IN  IF r.panic THEN Panicked
        ELSE IF r.result = <<>>
        THEN OkCow("Borrowed", input)
        ELSE LET rest == StrGet(input, r.last_end, Len(input))
             IN  IF ~rest.some
                 THEN Panicked
                 ELSE OkCow("Owned", r.result \o rest.val)

(***************************************************************************)
(* decode                                                                  *)
(***************************************************************************)
\* DecodeEntity with the empty body taken for "amp"
DecodeEntityLax(body) ==
    IF body = EntAmp \/ body = <<>> THEN AMP
    ELSE IF body = EntApos THEN APOS
    ELSE IF body = EntGt THEN GT
    ELSE IF body = EntLt THEN LT
    ELSE IF body = EntQuot THEN QUOT
    ELSE 0

\* the match on chars[..len] when ';' closes an entity: the decoded
\* character, 0 for the `_` arm
DecodeEntity(body) ==
    IF body = EntAmp THEN AMP
    ELSE IF body = EntApos THEN APOS
    ELSE IF body = EntGt THEN GT
    ELSE IF body = EntLt THEN LT
    ELSE IF body = EntQuot THEN QUOT
    ELSE 0

\* the capacity of DecodeState::Entity's buffer, [u8; 4]
EntityCap == 4

\* the DecodeState a '&' read in Normal leads to
DecodeOnAmp == [tag |-> "Entity", chars |-> <<>>]

\* DecodeAfterEntity left inside an entity: what follows a replacement is
\* read as an entity body again
DecodeAfterEntityRescan == [tag |-> "Entity", chars |-> <<>>]

\* the DecodeState after an entity was replaced
DecodeAfterEntity == [tag |-> "Normal", chars |-> <<>>]

\* the end of the input rejected when an entity is open
DecodeAtEndStrict(state, last_end, result) ==
    [err |-> state.tag = "Entity", panic |-> FALSE,
     arg |-> IF state.tag = "Entity" THEN state.chars ELSE <<>>,
     last_end |-> last_end, result |-> result]

\* the for loop of decode ends with the input: the state is dropped,
\* whether Normal or Entity
DecodeAtEnd(state, last_end, result) ==
    [err |-> FALSE, panic |-> FALSE, arg |-> <<>>,
     last_end |-> last_end, result |-> result]

\* the loop of decode over input.as_bytes().iter().enumerate(); i is the
\* 0-based offset of the next byte.  DecodeState::Entity(chars, len) is
\* modelled by chars[..len].
RECURSIVE DecodeLoop(_, _, _, _, _)
DecodeLoop(input, i, state, last_end, result) ==
    IF i >= Len(input)
    THEN DecodeAtEnd(state, last_end, result)
    ELSE LET b == input[i + 1]
         IN  IF state.tag = "Normal"
             THEN IF b = AMP
                  THEN DecodeLoop(input, i + 1, DecodeOnAmp, last_end, result)
                  ELSE DecodeLoop(input, i + 1, state, last_end, result)
             ELSE IF b = SEMI
             THEN LET decoded == DecodeEntity(state.chars)
                      start == i - (Len(state.chars) + 1)
                      piece == IF last_end < start
                               THEN StrGet(input, last_end, start)
                               ELSE [some |-> TRUE, val |-> <<>>]
                  IN  IF decoded = 0
                      THEN [err |-> TRUE, panic |-> FALSE,
                            arg |-> Utf8Lossy(state.chars),
                            last_end |-> last_end, result |-> result]
                      ELSE IF ~piece.some
                      THEN [err |-> FALSE, panic |-> TRUE, arg |-> <<>>,
                            last_end |-> last_end, result |-> result]
                      ELSE DecodeLoop(input, i + 1, DecodeAfterEntity, i + 1,
                                      result \o piece.val \o <<decoded>>)
             ELSE IF Len(state.chars) >= EntityCap
             THEN [err |-> TRUE, panic |-> FALSE,
                   arg |-> Utf8Lossy(state.chars \o <<b>>),
                   last_end |-> last_end, result |-> result]
             ELSE DecodeLoop(input, i + 1,
                             [tag |-> "Entity", chars |-> state.chars \o <<b>>],
                             last_end, result)

\* decode(input): Ok(Cow::Borrowed(input)), Ok(Cow::Owned(result)) or
\* Err(Error::InvalidEntity(arg))
decode(input) ==
    LET r == DecodeLoop(input, 0, [tag |-> "Normal", chars |-> <<>>], 0, <<>>)
    IN  IF r.err THEN ErrInvalidEntity(r.arg)
        ELSE IF r.panic THEN Panicked
        ELSE IF r.result = <<>> THEN OkCow("Borrowed", input)
        ELSE LET rest == StrGet(input, r.last_end, Len(input))
             IN  IF ~rest.some THEN Panicked
                 ELSE OkCow("Owned", r.result \o rest.val)

(***************************************************************************)
(* The serializer: lib.rs                                                  *)
(***************************************************************************)
\* Option<FieldAttribute>: None, Prefix(val), Namespace(val), Attribute
NoAttribute == [kind |-> "None", val |-> ""]
PrefixAttr(p) == [kind |-> "Prefix", val |-> p]
NamespaceAttr(ns) == [kind |-> "Namespace", val |-> ns]
AttributeAttr == [kind |-> "Attribute", val |-> ""]

\* Option<FieldContext>
NoContext == [some |-> FALSE, name |-> "", attribute |-> NoAttribute]
FieldContext(name, attribute) ==
    [some |-> TRUE, name |-> name, attribute |-> attribute]

\* Serializer::new
NewSerializer ==
    [ parent_namespaces |-> <<>>,
      output |-> <<>>,
      parent_default_namespace |-> "",
      parent_default_namespace_to_revert |-> "",
      current_attributes |-> <<>>,
      next_field_context |-> NoContext ]

\* self.output.write_str / write_char, one fragment a call
write(s, frags) == [s EXCEPT !.output = @ \o frags]

consume_current_attributes(s) ==
    [s EXCEPT !.output = @ \o s.current_attributes,
              !.current_attributes = <<>>]

add_attribute_key(s, attr_key) ==
    [s EXCEPT !.current_attributes = @ \o <<" ", attr_key, "=">>]

add_attribute_value(s, attr_value) ==
    [s EXCEPT !.current_attributes = @ \o <<"\"", attr_value, "\"">>]

\* set_field_context replacing a pending context
set_field_context_overwrite(s, field_context) ==
    [ok |-> TRUE, err |-> "None",
     s |-> [s EXCEPT !.next_field_context = field_context]]

\* Err(Error::UnexpectedState) when a context is pending
set_field_context(s, field_context) ==
    IF s.next_field_context.some
    THEN [ok |-> FALSE, err |-> "UnexpectedState", s |-> s]
    ELSE [ok |-> TRUE, err |-> "None",
          s |-> [s EXCEPT !.next_field_context = field_context]]

\* Option::take
consume_field_context(s) ==
    [ctx |-> s.next_field_context,
     s |-> [s EXCEPT !.next_field_context = NoContext]]

\* the default namespace replaced, the namespace to revert to left as it is
set_parent_default_namespace(s, namespace) ==
    [s EXCEPT !.parent_default_namespace = namespace]

update_parent_default_namespace(s, namespace) ==
    [s EXCEPT !.parent_default_namespace_to_revert = s.parent_default_namespace,
              !.parent_default_namespace = namespace]

retrieve_parent_default_namespace(s) ==
    [s EXCEPT !.parent_default_namespace = s.parent_default_namespace_to_revert]

add_open_tag(s, field_context) ==
    IF field_context.attribute.kind = "Prefix"
    THEN write(s, <<"<", field_context.attribute.val, ":",
                    field_context.name, ">">>)
    ELSE IF /\ field_context.attribute.kind = "Namespace"
            /\ s.parent_default_namespace # field_context.attribute.val
    THEN write(s, <<"<", field_context.name, " xmlns=\"",
                    field_context.attribute.val, "\">">>)
    ELSE write(s, <<"<", field_context.name, ">">>)

add_close_tag(s, field_context) ==
    IF field_context.attribute.kind = "Prefix"
    THEN write(s, <<"</", field_context.attribute.val, ":",
                    field_context.name, ">">>)
    ELSE write(s, <<"</", field_context.name, ">">>)

\* HashMap::get, insert and remove on parent_namespaces (namespace -> prefix)
MapHas(m, k) == k \in DOMAIN m
MapInsert(m, k, v) == [x \in DOMAIN m \cup {k} |-> IF x = k THEN v ELSE m[x]]
MapRemove(m, ks) == [x \in DOMAIN m \ ks |-> m[x]]

(***************************************************************************)
(* The generated serialize of a container: ser.rs                          *)
(***************************************************************************)
\* Namespace of a field: Default, Literal(val), Prefix(val)
NsDefault == [kind |-> "Default", val |-> ""]
NsLiteral(ns) == [kind |-> "Literal", val |-> ns]
NsPrefix(p) == [kind |-> "Prefix", val |-> p]

\* a scalar child field and the text of its value
Field(name, ns, text) == [name |-> name, ns |-> ns, text |-> text]

\* the containers serialized, each with its default namespace, its
\* prefixes and its scalar child fields in declaration order, and the
\* containers its other fields hold: the struct of tests/ser-named.rs, and
\* three elements that set a default namespace and nest in each other
StructWithNamedFields ==
    [ name |-> "StructWithNamedFields",
      default |-> "",
      prefixes |-> << <<"bar", "BAZ">>, <<"foo", "BAR">> >>,
      fields |-> << Field("flag", NsDefault, "true"),
                    Field("string", NsLiteral("BAZ"), "test"),
                    Field("number", NsLiteral("typo"), "1") >>,
      attrs |-> <<>>,
      children |-> {} ]

Plain ==
    [ name |-> "Plain", default |-> "", prefixes |-> <<>>,
      fields |-> <<>>, attrs |-> <<>>,
      children |-> {"Plain", "InA", "InB"} ]

InA ==
    [ name |-> "InA", default |-> "A", prefixes |-> <<>>,
      fields |-> << Field("a", NsLiteral("A"), "0") >>, attrs |-> <<>>,
      children |-> {"Plain", "InA", "InB"} ]

InB ==
    [ name |-> "InB", default |-> "B", prefixes |-> <<>>,
      fields |-> <<>>, attrs |-> <<>>,
      children |-> {"Plain", "InA", "InB"} ]

\* an attribute-role field: its name and the text of its value
Attr(name, text) == [name |-> name, text |-> text]

\* an element binding a prefix, its field in that prefix, holding Inner
Outer ==
    [ name |-> "Outer", default |-> "",
      prefixes |-> << <<"bar", "BAZ">> >>,
      fields |-> << Field("o", NsPrefix("bar"), "1") >>, attrs |-> <<>>,
      children |-> {"Inner"} ]

\* an element binding the namespace of Outer's prefix to a prefix of its
\* own, and a namespace of its own, declared in the order foo, baz; two
\* attribute-role fields; it nests in itself
Inner ==
    [ name |-> "Inner", default |-> "",
      prefixes |-> << <<"foo", "BAZ">>, <<"baz", "QUX">> >>,
      fields |-> << Field("i", NsPrefix("foo"), "2"),
                    Field("j", NsPrefix("baz"), "3") >>,
      attrs |-> << Attr("id", "7"), Attr("kind", "k") >>,
      children |-> {"Inner"} ]

Containers == {StructWithNamedFields, Plain, InA, InB, Outer, Inner}

\* the order sort() puts the prefixes used here in
PrefixRank == [bar |-> 1, baz |-> 2, foo |-> 3]

\* sorted_values.sort(): the (prefix, namespace) pairs by prefix
RECURSIVE SortPairs(_)
SortPairs(pairs) ==
    IF pairs = {} THEN <<>>
    ELSE LET least == CHOOSE x \in pairs :
                 \A y \in pairs : PrefixRank[x[1]] <= PrefixRank[y[1]]
         IN  <<least>> \o SortPairs(pairs \ {least})

Range(seq) == {seq[i] : i \in DOMAIN seq}

\* the declarations add_header writes for the prefixes, in the given order:
\* one for each namespace no enclosing element has bound
RECURSIVE PrefixDeclarations(_, _)
PrefixDeclarations(s, pairs) ==
    IF pairs = <<>> THEN <<>>
    ELSE (IF ~MapHas(s.parent_namespaces, pairs[1][2])
          THEN <<" xmlns:", pairs[1][1], "=\"", pairs[1][2], "\"">>
          ELSE <<>>)
         \o PrefixDeclarations(s, Tail(pairs))

\* the code add_header generates, for container c
add_header(s, c) ==
    LET s1 == write(s, <<"<", c.name>>)
        s2 == IF s1.parent_default_namespace # c.default
              THEN write(s1, <<" xmlns=\"", c.default, "\"">>)
              ELSE s1
        s3 == update_parent_default_namespace(s2, c.default)
        s4 == write(s3, PrefixDeclarations(s3, SortPairs(Range(c.prefixes))))
        s5 == consume_current_attributes(s4)
    IN  write(s5, <<">">>)

\* the code namespaces_token generates, the prefixes taken in the order
\* `pairs`: [s, to_remove]
RECURSIVE namespaces_token(_, _, _)
namespaces_token(s, pairs, to_remove) ==
    IF pairs = <<>> THEN [s |-> s, to_remove |-> to_remove]
    ELSE LET k == pairs[1][1]
             v == pairs[1][2]
         IN  IF ~MapHas(s.parent_namespaces, v)
             THEN namespaces_token(
                      [s EXCEPT !.parent_namespaces = MapInsert(@, v, k)],
                      Tail(pairs), to_remove \cup {v})
             ELSE namespaces_token(s, Tail(pairs), to_remove)

\* the code add_footer generates
add_footer(s, root_name) ==
    retrieve_parent_default_namespace(write(s, <<"</", root_name, ">">>))

\* self.meta.ns.prefixes.get(prefix)
PrefixValue(c, prefix) ==
    LET hit == {x \in Range(c.prefixes) : x[1] = prefix}
    IN  (CHOOSE x \in hit : TRUE)[2]

\* field_context_of never looking the namespace up in parent_namespaces
field_context_own(s, c, f) ==
    IF f.ns.kind = "Literal"
    THEN FieldContext(f.name, NamespaceAttr(f.ns.val))
    ELSE IF f.ns.kind = "Prefix"
    THEN FieldContext(f.name, PrefixAttr(f.ns.val))
    ELSE FieldContext(f.name, NoAttribute)

\* the FieldContext process_named_field builds for a child field
field_context_of(s, c, f) ==
    IF f.ns.kind = "Literal"
    THEN FieldContext(f.name, NamespaceAttr(f.ns.val))
    ELSE IF f.ns.kind = "Prefix"
    THEN LET val == PrefixValue(c, f.ns.val)
             prefix_key == IF MapHas(s.parent_namespaces, val)
                           THEN s.parent_namespaces[val]
                           ELSE f.ns.val
         IN  FieldContext(f.name, PrefixAttr(prefix_key))
    ELSE FieldContext(f.name, NoAttribute)

\* the name of the wrapper of a scalar child: a namespace that is not the
\* default and that an element in scope binds to a prefix is written with
\* that prefix
wrapper_context(s, field_context) ==
    IF /\ field_context.attribute.kind = "Namespace"
       /\ field_context.attribute.val # s.parent_default_namespace
       /\ MapHas(s.parent_namespaces, field_context.attribute.val)
    THEN FieldContext(field_context.name,
             PrefixAttr(s.parent_namespaces[field_context.attribute.val]))
    ELSE field_context

\* serialize of a scalar value handed a field context: the value of an
\* attribute, or the open tag, the text, the close tag
scalar_serialize(s, text) ==
    LET taken == consume_field_context(s)
        ctx == wrapper_context(taken.s, taken.ctx)
        s1 == add_open_tag(taken.s, ctx)
        s2 == write(s1, <<text>>)
    IN  IF taken.ctx.attribute.kind = "Attribute"
        THEN add_attribute_value(taken.s, text)
        ELSE add_close_tag(s2, ctx)

\* the code process_named_field generates for an attribute-role field
process_attribute_field(s, f) ==
    LET s1 == add_attribute_key(s, f.name)
        set == set_field_context(s1, FieldContext(f.name, AttributeAttr))
    IN  IF ~set.ok THEN [ok |-> FALSE, s |-> s1]
        ELSE [ok |-> TRUE, s |-> scalar_serialize(set.s, f.text)]

\* the code of the attribute-role fields, in field declaration order
RECURSIVE process_attributes(_, _)
process_attributes(s, attrs) ==
    IF attrs = <<>> THEN [ok |-> TRUE, s |-> s]
    ELSE LET r == process_attribute_field(s, attrs[1])
         IN  IF ~r.ok THEN r ELSE process_attributes(r.s, Tail(attrs))

\* the code process_named_field generates for a child field f of c
process_named_field(s, c, f) ==
    LET set == set_field_context(s, field_context_of(s, c, f))
    IN  IF ~set.ok THEN [ok |-> FALSE, s |-> s]
        ELSE [ok |-> TRUE, s |-> scalar_serialize(set.s, f.text)]

\* the field of the enclosing struct that holds a container: named after
\* the type here
ChildFieldName(c) == c.name

\* the code process_named_field generates for a field holding a container,
\* up to the container's own serialize taking the context: the element is
\* named by the container, not by the field
process_struct_field(s, c) ==
    LET set == set_field_context(s, FieldContext(ChildFieldName(c),
                                                  NoAttribute))
    IN  IF ~set.ok THEN [ok |-> FALSE, s |-> s]
        ELSE [ok |-> TRUE, s |-> consume_field_context(set.s).s]

\* the orders a HashMap's iter() may yield the pairs in
Orders(pairs) ==
    {o \in [1..Cardinality(pairs) -> pairs] :
        \A i, j \in DOMAIN o : i # j => o[i] # o[j]}

(***************************************************************************)
(* The value adapters: impls.rs                                            *)
(***************************************************************************)
\* Option<T> of an accumulator or of take_str()
None == [some |-> FALSE, val |-> <<>>]
Some(v) == [some |-> TRUE, val |-> v]

\* Result<(), Error> of deserialize with the accumulator it leaves, and
\* Result<T, Error> of try_done
DeOk(into) == [res |-> "Ok", into |-> into]
DeErr(e, into) == [res |-> e, into |-> into]
Done(v) == [ok |-> TRUE, val |-> v, err |-> "None"]
Failed(e) == [ok |-> FALSE, val |-> <<>>, err |-> e]

\* the decimal digits '0'..'9' as bytes
IsDigit(b) == b >= 48 /\ b <= 57

RECURSIVE DigitsValue(_)
DigitsValue(t) ==
    IF t = <<>> THEN 0
    ELSE DigitsValue(SubSeq(t, 1, Len(t) - 1)) * 10 + (t[Len(t)] - 48)

\* u8::from_str: an optional '+', then digits, the value at most u8::MAX
U8FromStr(t) ==
    LET digits == IF t # <<>> /\ t[1] = 43 THEN Tail(t) ELSE t
    IN  IF /\ digits # <<>>
           /\ \A i \in DOMAIN digits : IsDigit(digits[i])
           /\ DigitsValue(digits) <= 255
        THEN Some(DigitsValue(digits))
        ELSE None

\* char::from_str: a string of exactly one character
CharFromStr(t) ==
    IF t # <<>> /\ Len(Chars(t)) = 1 THEN Some(Chars(t)[1]) ELSE None

\* T::from_str of FromXmlStr<T>
FromStr(ty, t) == IF ty = "char" THEN CharFromStr(t) ELSE U8FromStr(t)

\* <FromXmlStr<T> as FromXml>::deserialize; text is what take_str() returns
FromXmlStrDeserialize(ty, text, into) ==
    IF into.some THEN DeErr("DuplicateValue", into)
    ELSE IF ~text.some THEN DeOk(into)
    ELSE LET value == FromStr(ty, text.val)
         IN  IF value.some THEN DeOk(Some(value.val))
             ELSE DeErr("UnexpectedValue", into)

\* from_xml_for_number!($typ) and <char as FromXml>::deserialize
NumberDeserialize(ty, text, into) ==
    IF into.some THEN DeErr("DuplicateValue", into)
    ELSE LET r == FromXmlStrDeserialize(ty, text, None)
         IN  IF r.res # "Ok" THEN DeErr(r.res, into)
             ELSE IF r.into.some THEN DeOk(Some(r.into.val))
             ELSE DeOk(into)

\* "true", "1", "false", "0" as bytes
StrTrue == <<116, 114, 117, 101>>
StrOne == <<49>>
StrFalse == <<102, 97, 108, 115, 101>>
StrZero == <<48>>

\* <bool as FromXml>::deserialize
BoolDeserialize(text, into) ==
    IF into.some THEN DeErr("DuplicateValue", into)
    ELSE IF ~text.some THEN DeOk(into)
    ELSE IF text.val = StrTrue \/ text.val = StrOne THEN DeOk(Some(TRUE))
    ELSE IF text.val = StrFalse \/ text.val = StrZero THEN DeOk(Some(FALSE))
    ELSE DeErr("UnexpectedValue", into)

\* <String as FromXml>::deserialize
StringDeserialize(text, into) ==
    IF into.some THEN DeErr("DuplicateValue", into)
    ELSE IF ~text.some THEN DeOk(into)
    ELSE LET d == decode(text.val)
         IN  IF d.kind = "Err" THEN DeErr(d.err, into)
             ELSE DeOk(Some(d.val))

\* StrOnDecoded taking an owned copy for a borrowed view
StrOnDecodedLax(d, into) == DeOk(Some(d.val))

\* what <&str as FromXml>::deserialize does with the Cow decode returned
StrOnDecoded(d, into) ==
    IF d.cow = "Borrowed" THEN DeOk(Some(d.val))
    ELSE DeErr("UnexpectedValue", into)

\* <&str as FromXml>::deserialize
StrDeserialize(text, into) ==
    IF into.some THEN DeErr("DuplicateValue", into)
    ELSE IF ~text.some THEN DeOk(into)
    ELSE LET d == decode(text.val)
         IN  IF d.kind = "Err" THEN DeErr(d.err, into)
             ELSE StrOnDecoded(d, into)

\* <() as FromXml>::deserialize
UnitDeserialize(text, into) == DeOk(Some("unit"))

\* Accumulate::try_done of an Option<T> accumulator: the value, or
\* missing-value when none was accepted
OptionTryDone(acc) ==
    IF acc.some THEN Done(acc.val) ELSE Failed("MissingValue")

\* Accumulate::try_done of a Vec<T> accumulator: the sequence as it is
VecTryDone(acc) == Done(acc)

\* <Cow<'a, T> as FromXml>::deserialize, T::Owned = String
CowDeserialize(text, into) ==
    IF into.some THEN DeErr("DuplicateValue", into)
    ELSE LET r == StringDeserialize(text, None)
             done == OptionTryDone(r.into)
         IN  IF r.res # "Ok" THEN DeErr(r.res, into)
             ELSE IF ~done.ok THEN DeErr(done.err, into)
             ELSE DeOk(Some([cow |-> "Owned", val |-> done.val]))

\* the scalar types modelled; a type is a sequence of constructors with
\* the scalar last: <<"Option", "bool">> is Option<bool>
Scalars == {"u8", "bool", "char", "String", "&str", "Cow", "()"}

ScalarDeserialize(ty, text, into) ==
    IF ty = "u8" \/ ty = "char" THEN NumberDeserialize(ty, text, into)
    ELSE IF ty = "bool" THEN BoolDeserialize(text, into)
    ELSE IF ty = "String" THEN StringDeserialize(text, into)
    ELSE IF ty = "&str" THEN StrDeserialize(text, into)
    ELSE IF ty = "Cow" THEN CowDeserialize(text, into)
    ELSE UnitDeserialize(text, into)

\* Accumulator::default() of a type
RECURSIVE AccDefault(_)
AccDefault(ty) ==
    IF ty[1] = "Option" THEN [value |-> AccDefault(Tail(ty))]
    ELSE IF ty[1] = "Vec" THEN <<>>
    ELSE None

\* Accumulate::try_done of a type's accumulator; for Option<T> it is
\* OptionAccumulator::try_done
RECURSIVE TryDone(_, _)
TryDone(ty, acc) ==
    IF ty[1] = "Option"
    THEN LET r == TryDone(Tail(ty), acc.value)
         IN  IF r.ok THEN Done(Some(r.val)) ELSE Done(None)
    ELSE IF ty[1] = "Vec" THEN VecTryDone(acc)
    ELSE OptionTryDone(acc)

\* VecPush putting the value in front
VecPushFront(into, value) == <<value>> \o into

\* into.push(value) of <Vec<T> as FromXml>::deserialize
VecPush(into, value) == Append(into, value)

\* FromXml::deserialize of a type: Option<T>, Vec<T> or a scalar
RECURSIVE Deserialize(_, _, _)
Deserialize(ty, text, into) ==
    IF ty[1] = "Option"
    THEN LET r == Deserialize(Tail(ty), text, into.value)
         IN  [res |-> r.res, into |-> [value |-> r.into]]
    ELSE IF ty[1] = "Vec"
    THEN LET r == Deserialize(Tail(ty), text, AccDefault(Tail(ty)))
             done == TryDone(Tail(ty), r.into)
         IN  IF r.res # "Ok" THEN DeErr(r.res, into)
             ELSE IF ~done.ok THEN DeErr(done.err, into)
             ELSE DeOk(VecPush(into, done.val))
    ELSE ScalarDeserialize(ty[1], text, into)

(***************************************************************************)
(* One field's accumulator over the occurrences of the field.              *)
(***************************************************************************)
\* the field types
Types ==
    {<<t>> : t \in Scalars} \cup {<<"Option", t>> : t \in Scalars}
        \cup {<<"Vec", "u8">>, <<"Vec", "String">>}

\* the element texts: "1", "2", "3", "hi", "true", "&", 'e' acute,
\* "a&amp;b", "&x;", "&amp;&x;"
Texts ==
    { <<49>>, <<50>>, <<51>>, <<104, 105>>, StrTrue, <<AMP>>, Utf8(233),
      <<97>> \o <<AMP>> \o EntAmp \o <<SEMI>> \o <<98>>,
      <<AMP, 120, SEMI>>,
      <<AMP>> \o EntAmp \o <<SEMI, AMP, 120, SEMI>> }

\* what take_str() may return
TakeStr == {None} \cup {Some(t) : t \in Texts}

NoFinal == [ok |-> FALSE, val |-> <<>>, err |-> "NotCalled"]

\* whether an accumulator of type ty holds a value
RECURSIVE Holds(_, _)
Holds(ty, acc) ==
    IF ty[1] = "Option" THEN Holds(Tail(ty), acc.value)
    ELSE IF ty[1] = "Vec" THEN acc # <<>>
    ELSE acc.some

DeIdle ==
    /\ de_ty = <<"()">>
    /\ de_acc = None
    /\ de_calls = 0
    /\ de_text = None
    /\ de_had = FALSE
    /\ de_result = "None"
    /\ de_log = <<>>
    /\ de_final = NoFinal

\* an element matching the field is met: the field's deserialize is called
\* on the accumulator, take_str() returning text
DeDeserialize(text) ==
    /\ de_calls < MaxCalls
    /\ de_result \in {"None", "Ok"}
    /\ de_final.err = "NotCalled"
    /\ LET r == Deserialize(de_ty, text, de_acc)
       IN  /\ de_acc' = r.into
           /\ de_result' = r.res
           /\ de_log' = IF r.res = "Ok" THEN Append(de_log, text) ELSE de_log
    /\ de_text' = text
    /\ de_had' = Holds(de_ty, de_acc)
    /\ de_calls' = de_calls + 1
    /\ UNCHANGED <<de_ty, de_final>>

\* the element holding the field ends: the accumulator is finalized
DeFinalize ==
    /\ de_result \in {"None", "Ok"}
    /\ de_final.err = "NotCalled"
    /\ de_final' = TryDone(de_ty, de_acc)
    /\ UNCHANGED <<de_ty, de_acc, de_calls, de_text, de_had, de_result, de_log>>

(***************************************************************************)
(* <DisplayToXml as ToXml>::serialize: impls.rs.  The serializer's methods *)
(* it calls are recorded as calls; what they return is their outcome.      *)
(***************************************************************************)
\* Option<Id<'_>>: the field
NoField == [some |-> FALSE, name |-> "", ns |-> ""]
SomeField(name, ns) == [some |-> TRUE, name |-> name, ns |-> ns]

\* Option<&str>: the prefix write_start returns
NoPrefix == [some |-> FALSE, val |-> ""]
SomePrefix(p) == [some |-> TRUE, val |-> p]

\* the calls: serializer.write_start(id.name, id.ns), returning ret,
\* serializer.end_start(), serializer.write_str(self.0),
\* serializer.write_close(prefix, name)
CallWriteStart(name, ns, ret) ==
    [op |-> "write_start", name |-> name, ns |-> ns, prefix |-> NoPrefix,
     text |-> "", ret |-> ret]
CallEndStart ==
    [op |-> "end_start", name |-> "", ns |-> "", prefix |-> NoPrefix,
     text |-> "", ret |-> NoPrefix]
CallWriteStr(text) ==
    [op |-> "write_str", name |-> "", ns |-> "", prefix |-> NoPrefix,
     text |-> text, ret |-> NoPrefix]
CallWriteClose(prefix, name) ==
    [op |-> "write_close", name |-> name, ns |-> "", prefix |-> prefix,
     text |-> "", ret |-> NoPrefix]

\* write_close called with no prefix
DisplayCloseNoPrefix(prefix, name) == CallWriteClose(NoPrefix, name)

\* serializer.write_close(prefix, name)?
DisplayClose(prefix, name) == CallWriteClose(prefix, name)

\* what the serializer's methods return to one serialize: write_start an
\* error or a prefix, the others Ok(()) or an error
Outcomes ==
    [ start_ok : BOOLEAN,
      prefix : {NoPrefix, SomePrefix("bar"), SomePrefix("foo")},
      end_start : BOOLEAN, write_str : BOOLEAN, write_close : BOOLEAN ]

\* <DisplayToXml as ToXml>::serialize(field, serializer) of a value whose
\* Display is `value`: [calls, res]
DisplayToXmlSerialize(field, value, o) ==
    LET c1 == IF field.some
              THEN <<CallWriteStart(field.name, field.ns,
                                    IF o.start_ok THEN o.prefix ELSE NoPrefix)>>
              ELSE <<>>
        c2 == IF field.some THEN c1 \o <<CallEndStart>> ELSE c1
        c3 == c2 \o <<CallWriteStr(value)>>
        c4 == c3 \o <<DisplayClose(o.prefix, field.name)>>
    IN  IF field.some /\ ~o.start_ok THEN [calls |-> c1, res |-> "Err"]
        ELSE IF field.some /\ ~o.end_start THEN [calls |-> c2, res |-> "Err"]
        ELSE IF ~o.write_str THEN [calls |-> c3, res |-> "Err"]
        ELSE IF ~field.some THEN [calls |-> c3, res |-> "Ok"]
        ELSE [calls |-> c4,
              res |-> IF o.write_close THEN "Ok" ELSE "Err"]

\* the text <String as ToXml>::serialize hands to DisplayToXml
StringSerializeText(v) == encode(v)

\* the text <char as ToXml>::serialize hands to DisplayToXml
CharSerializeText(c) == encode(Utf8(c))

\* take_str() on the element written: none when the element has no text
ElementText(t) == IF t = <<>> THEN None ELSE Some(t)

(***************************************************************************)
(* The forwarding enum of tests/forward-enum.rs:                           *)
(*   enum Foo { Bar(Bar), Baz(Baz) }, Bar { bar: u8 }, Baz { baz: String } *)
(***************************************************************************)
FooBar(n) == [variant |-> "Bar", bar |-> n, baz |-> <<>>]
FooBaz(t) == [variant |-> "Baz", bar |-> 0, baz |-> t]

\* the u8 values tried
U8Values == {0, 7, 42, 255}

\* <u8 as Display>::fmt: the decimal digits
RECURSIVE U8Display(_)
U8Display(n) ==
    IF n < 10 THEN <<48 + n>>
    ELSE U8Display(n \div 10) \o <<48 + (n % 10)>>

\* an element holding one scalar child element, or what stopped the
\* serialization
Element(name, child, text) ==
    [st |-> "Ok", name |-> name, child |-> child, text |-> text]
NoElement == [st |-> "Failed", name |-> "", child |-> "", text |-> <<>>]

\* serialize of a struct with one scalar field: the element of the struct
\* holding the element of the field; the text of the field is what the
\* scalar's serialize writes
StructSerialize(name, child, text) ==
    IF text.kind = "Ok" THEN Element(name, child, text.val) ELSE NoElement

\* serialize of Foo: the serialize of the variant's inner value, no element
\* of its own
ForwardSerialize(v) ==
    IF v.variant = "Bar"
    THEN StructSerialize("Bar", "bar", OkCow("Owned", U8Display(v.bar)))
    ELSE StructSerialize("Baz", "baz", StringSerializeText(v.baz))

\* Result<Foo, Error>
FooOk(v) == [res |-> "Ok", value |-> v]
FooErr(e) == [res |-> e, value |-> FooBar(0)]

\* the end of a struct's deserialize: the error of the field's adapter, or
\* the accumulator finalized
StructFinish(ty, r) ==
    IF r.res # "Ok" THEN [ok |-> FALSE, val |-> <<>>, err |-> r.res]
    ELSE TryDone(ty, r.into)

\* deserialize of a struct with one scalar field of type ty from an
\* element: the child matching the field goes to the field's adapter, any
\* other child is skipped, and the accumulator is finalized
StructDeserialize(child, ty, doc) ==
    StructFinish(ty, IF doc.child = child
                     THEN Deserialize(ty, ElementText(doc.text),
                                      AccDefault(ty))
                     ELSE DeOk(AccDefault(ty)))

\* the variant of Foo wrapping what the inner deserialize returned
FooWrap(bar, r) ==
    IF ~r.ok THEN FooErr(r.err)
    ELSE IF bar THEN FooOk(FooBar(r.val))
    ELSE FooOk(FooBaz(r.val))

\* deserialize of Foo from an element: the variant whose Id matches the
\* element is selected; unexpected-tag when none does
ForwardDeserialize(doc) ==
    IF doc.name = "Bar"
    THEN FooWrap(TRUE, StructDeserialize("bar", <<"u8">>, doc))
    ELSE IF doc.name = "Baz"
    THEN FooWrap(FALSE, StructDeserialize("baz", <<"String">>, doc))
    ELSE FooErr("UnexpectedTag")

\* the codec before any call
CodecIdle ==
    /\ codec_input = <<>>
    /\ encode_result = NoResult
    /\ decode_result = NoResult
    /\ roundtrip_result = NoResult

\* no display-based scalar serialized
DispIdle ==
    /\ disp_field = NoField
    /\ disp_value = ""
    /\ disp_calls = <<>>
    /\ disp_result = "None"

\* no value of Foo serialized
FwIdle ==
    /\ fw_value = FooBar(0)
    /\ fw_doc = [st |-> "None", name |-> "", child |-> "", text |-> <<>>]
    /\ fw_back = [src |-> "None", res |-> "None", value |-> FooBar(0)]

\* no call of set_field_context or consume_field_context made
NoCtxCall ==
    [op |-> "none", arg |-> NoContext, before |-> NoContext, ok |-> TRUE,
     err |-> "None", ret |-> NoContext]

CtxIdle ==
    /\ ctx_last = NoCtxCall
    /\ ctx_calls = 0

\* the parts of the state a specification leaves alone
RestIdle == DispIdle /\ FwIdle /\ CtxIdle

(***************************************************************************)
(* The serialization of one document.                                      *)
(***************************************************************************)
NoStep == [op |-> "none", at |-> 0, name |-> "", entry_default |-> ""]

SerIdle ==
    /\ serializer = NewSerializer
    /\ open = <<>>
    /\ last = NoStep
    /\ n_elems = 0

\* serialize of a container c starts: the root, or a child of the
\* innermost open element, whose field context the enclosing struct sets
\* and c takes.  The attribute-role fields are buffered, the header is
\* written, then the prefixes of c are entered in parent_namespaces.
SerOpen(c) ==
    /\ Len(open) < MaxDepth
    /\ n_elems < MaxElems
    /\ open = <<>> => n_elems = 0
    /\ open # <<>> => c.name \in open[Len(open)].c.children
    /\ \E order \in Orders(Range(c.prefixes)) :
          LET e == IF open = <<>>
                   THEN [ok |-> TRUE, s |-> consume_field_context(serializer).s]
                   ELSE process_struct_field(serializer, c)
              a == process_attributes(e.s, c.attrs)
              s1 == add_header(a.s, c)
              r == namespaces_token(s1, order, {})
          IN  /\ e.ok
              /\ a.ok
              /\ serializer' = r.s
              /\ open' = Append(open,
                     [c |-> c, to_remove |-> r.to_remove, next |-> 1,
                      entry_default |-> serializer.parent_default_namespace])
    /\ last' = [op |-> "open", at |-> Len(serializer.output), name |-> c.name,
                entry_default |-> serializer.parent_default_namespace]
    /\ n_elems' = n_elems + 1

\* the next scalar child field of the innermost open element is serialized
SerField ==
    /\ open # <<>>
    /\ LET top == open[Len(open)]
       IN  /\ top.next <= Len(top.c.fields)
           /\ LET f == top.c.fields[top.next]
                  r == process_named_field(serializer, top.c, f)
              IN  /\ r.ok
                  /\ serializer' = r.s
                  /\ last' = [op |-> "field", at |-> Len(serializer.output),
                              name |-> f.name,
                              entry_default |->
                                  serializer.parent_default_namespace]
           /\ open' = [open EXCEPT ![Len(open)].next = top.next + 1]
    /\ UNCHANGED n_elems

\* serialize of the innermost open element ends: the footer is written and
\* the namespaces this element entered are removed
SerClose ==
    /\ open # <<>>
    /\ LET top == open[Len(open)]
           s1 == add_footer(serializer, top.c.name)
       IN  /\ top.next > Len(top.c.fields)
           /\ serializer' =
                  [s1 EXCEPT !.parent_namespaces = MapRemove(@, top.to_remove)]
           /\ last' = [op |-> "close", at |-> Len(serializer.output),
                       name |-> top.c.name,
                       entry_default |-> top.entry_default]
    /\ open' = SubSeq(open, 1, Len(open) - 1)
    /\ UNCHANGED n_elems

InitSer ==
    /\ SerIdle
    /\ DeIdle
    /\ CodecIdle
    /\ RestIdle

NextSer ==
    \/ \E c \in Containers : SerOpen(c) /\ UNCHANGED <<codecVars, deVars, restVars>>
    \/ SerField /\ UNCHANGED <<codecVars, deVars, restVars>>
    \/ SerClose /\ UNCHANGED <<codecVars, deVars, restVars>>

SpecSer == InitSer /\ [][NextSer]_vars

(***************************************************************************)
(* The codec applied to bounded inputs.                                    *)
(***************************************************************************)
\* "&amp;" and the like
Entity(body) == <<AMP>> \o body \o <<SEMI>>

\* what inputs are built of: the five characters of the table, ';', 'a',
\* 'e' acute (2 bytes), the euro sign (3 bytes), U+1F600 (4 bytes), "amp",
\* and the five entities
Pieces ==
    { <<AMP>>, <<LT>>, <<GT>>, <<QUOT>>, <<APOS>>, <<SEMI>>, <<97>>,
      Utf8(233), Utf8(8364), Utf8(128512), EntAmp,
      Entity(EntAmp), Entity(EntLt), Entity(EntGt), Entity(EntQuot),
      Entity(EntApos) }

RECURSIVE InputsOf(_)
InputsOf(n) ==
    IF n = 0 THEN {<<>>}
    ELSE LET prev == InputsOf(n - 1)
         IN  prev \cup {p \o q : p \in prev, q \in Pieces}

Inputs == InputsOf(MaxPieces)

InitCodec ==
    /\ codec_input \in Inputs
    /\ encode_result = NoResult
    /\ decode_result = NoResult
    /\ roundtrip_result = NoResult
    /\ SerIdle
    /\ DeIdle
    /\ RestIdle

\* a caller encodes the string
Encode ==
    /\ encode_result = NoResult
    /\ encode_result' = encode(codec_input)
    /\ UNCHANGED <<codec_input, decode_result, roundtrip_result, serVars, deVars,
                   restVars>>

\* a caller decodes the string
Decode ==
    /\ decode_result = NoResult
    /\ decode_result' = decode(codec_input)
    /\ UNCHANGED <<codec_input, encode_result, roundtrip_result, serVars, deVars,
                   restVars>>

\* a caller decodes what encode returned
DecodeEncoded ==
    /\ encode_result.kind = "Ok"
    /\ roundtrip_result = NoResult
    /\ roundtrip_result' = decode(encode_result.val)
    /\ UNCHANGED <<codec_input, encode_result, decode_result, serVars, deVars,
                   restVars>>

NextCodec == Encode \/ Decode \/ DecodeEncoded

SpecCodec == InitCodec /\ [][NextCodec]_vars

(***************************************************************************)
(* The accumulator of one field, of any of the types.                      *)
(***************************************************************************)
InitDe ==
    /\ de_ty \in Types
    /\ de_acc = AccDefault(de_ty)
    /\ de_calls = 0
    /\ de_text = None
    /\ de_had = FALSE
    /\ de_result = "None"
    /\ de_log = <<>>
    /\ de_final = NoFinal
    /\ SerIdle
    /\ CodecIdle
    /\ RestIdle

NextDe ==
    \/ \E text \in TakeStr : DeDeserialize(text) /\ UNCHANGED <<codecVars, serVars, restVars>>
    \/ DeFinalize /\ UNCHANGED <<codecVars, serVars, restVars>>

SpecDe == InitDe /\ [][NextDe]_vars

(***************************************************************************)
(* A value of the forwarding enum serialized, and elements deserialized.   *)
(***************************************************************************)
\* the values of Foo
FooValues == {FooBar(n) : n \in U8Values} \cup {FooBaz(t) : t \in Inputs}

\* elements no variant of Foo matches
ForeignElements ==
    {Element("Qux", "bar", <<52, 50>>), Element("Foo", "bar", <<52, 50>>)}

InitForward ==
    /\ fw_value \in FooValues
    /\ fw_doc = [st |-> "None", name |-> "", child |-> "", text |-> <<>>]
    /\ fw_back = [src |-> "None", res |-> "None", value |-> FooBar(0)]
    /\ DispIdle
    /\ CtxIdle
    /\ CodecIdle
    /\ SerIdle
    /\ DeIdle

\* to_string(&value)
FwSerialize ==
    /\ fw_doc.st = "None"
    /\ fw_doc' = ForwardSerialize(fw_value)
    /\ UNCHANGED <<fw_value, fw_back, dispVars, ctxVars, codecVars,
                   serVars, deVars>>

\* from_str of what to_string wrote
FwDeserialize ==
    /\ fw_doc.st = "Ok"
    /\ fw_back.src = "None"
    /\ LET r == ForwardDeserialize(fw_doc)
       IN  fw_back' = [src |-> "own", res |-> r.res, value |-> r.value]
    /\ UNCHANGED <<fw_value, fw_doc, dispVars, ctxVars, codecVars,
                   serVars, deVars>>

\* from_str of an element of another type
FwDeserializeForeign(doc) ==
    /\ fw_back.src = "None"
    /\ LET r == ForwardDeserialize(doc)
       IN  fw_back' = [src |-> "foreign", res |-> r.res, value |-> r.value]
    /\ UNCHANGED <<fw_value, fw_doc, dispVars, ctxVars, codecVars,
                   serVars, deVars>>

NextForward ==
    \/ FwSerialize
    \/ FwDeserialize
    \/ \E doc \in ForeignElements : FwDeserializeForeign(doc)

SpecForward == InitForward /\ [][NextForward]_vars

(***************************************************************************)
(* One serialize of a display-based scalar.                                *)
(***************************************************************************)
\* the fields and the values serialized
DisplayFields ==
    {NoField} \cup {SomeField(n, ns) : n \in {"flag", "number"},
                                        ns \in {"", "BAZ"}}
DisplayValues == {"1", "true", "-7"}

InitDisplay ==
    /\ disp_field \in DisplayFields
    /\ disp_value \in DisplayValues
    /\ disp_calls = <<>>
    /\ disp_result = "None"
    /\ FwIdle
    /\ CtxIdle
    /\ CodecIdle
    /\ SerIdle
    /\ DeIdle

\* serialize runs, the serializer's methods returning the outcome o
DisplaySerialize(o) ==
    /\ disp_result = "None"
    /\ LET r == DisplayToXmlSerialize(disp_field, disp_value, o)
       IN  /\ disp_calls' = r.calls
           /\ disp_result' = r.res
    /\ UNCHANGED <<disp_field, disp_value, fwVars, ctxVars, codecVars,
                   serVars, deVars>>

NextDisplay == \E o \in Outcomes : DisplaySerialize(o)

SpecDisplay == InitDisplay /\ [][NextDisplay]_vars

(***************************************************************************)
(* The pending field context of one serializer.                            *)
(***************************************************************************)
\* the field contexts handed to set_field_context
FieldContexts ==
    {FieldContext(n, a) :
        n \in {"flag", "id"},
        a \in {NoAttribute, PrefixAttr("bar"), NamespaceAttr("BAZ"),
                AttributeAttr}}

\* the namespaces handed to set_parent_default_namespace
DefaultNamespaces == {"", "A", "Z"}

InitContext ==
    /\ SerIdle
    /\ CtxIdle
    /\ DispIdle
    /\ FwIdle
    /\ CodecIdle
    /\ DeIdle

\* serializer.set_field_context(field_context)
CtxSet(field_context) ==
    /\ ctx_calls < MaxCtxCalls
    /\ LET r == set_field_context(serializer, field_context)
       IN  /\ serializer' = r.s
           /\ ctx_last' = [op |-> "set", arg |-> field_context,
                           before |-> serializer.next_field_context,
                           ok |-> r.ok, err |-> r.err, ret |-> NoContext]
    /\ ctx_calls' = ctx_calls + 1
    /\ UNCHANGED <<open, last, n_elems, dispVars, fwVars, codecVars, deVars>>

\* serializer.consume_field_context()
CtxConsume ==
    /\ ctx_calls < MaxCtxCalls
    /\ LET r == consume_field_context(serializer)
       IN  /\ serializer' = r.s
           /\ ctx_last' = [op |-> "consume", arg |-> NoContext,
                           before |-> serializer.next_field_context,
                           ok |-> TRUE, err |-> "None", ret |-> r.ctx]
    /\ ctx_calls' = ctx_calls + 1
    /\ UNCHANGED <<open, last, n_elems, dispVars, fwVars, codecVars, deVars>>

\* serializer.set_parent_default_namespace(namespace)
CtxSetParentDefault(namespace) ==
    /\ ctx_calls < MaxCtxCalls
    /\ serializer' = set_parent_default_namespace(serializer, namespace)
    /\ ctx_last' = [op |-> "set_default", arg |-> NoContext,
                    before |-> serializer.next_field_context,
                    ok |-> TRUE, err |-> "None", ret |-> NoContext]
    /\ ctx_calls' = ctx_calls + 1
    /\ UNCHANGED <<open, last, n_elems, dispVars, fwVars, codecVars, deVars>>

NextContext ==
    \/ \E fc \in FieldContexts : CtxSet(fc)
    \/ CtxConsume
    \/ \E ns \in DefaultNamespaces : CtxSetParentDefault(ns)

SpecContext == InitContext /\ [][NextContext]_vars

(***************************************************************************)
(* A scalar child field serialized, and the text deserialized again.       *)
(***************************************************************************)
\* the value round-tripped: a String, or the char a one-char string holds
InitRoundTrip ==
    /\ de_ty \in {<<"String">>, <<"char">>}
    /\ codec_input \in Inputs
    /\ de_ty = <<"char">> => Len(Chars(codec_input)) = 1
    /\ encode_result = NoResult
    /\ decode_result = NoResult
    /\ roundtrip_result = NoResult
    /\ de_acc = AccDefault(de_ty)
    /\ de_calls = 0
    /\ de_text = None
    /\ de_had = FALSE
    /\ de_result = "None"
    /\ de_log = <<>>
    /\ de_final = NoFinal
    /\ SerIdle
    /\ RestIdle

\* the value is serialized as a scalar child field
RtSerialize ==
    /\ encode_result = NoResult
    /\ encode_result' =
           IF de_ty = <<"char">>
           THEN CharSerializeText(Chars(codec_input)[1])
           ELSE StringSerializeText(codec_input)
    /\ UNCHANGED <<codec_input, decode_result, roundtrip_result, serVars,
                   deVars, restVars>>

\* the element written is deserialized into the same type
RtDeserialize ==
    /\ encode_result.kind = "Ok"
    /\ de_calls = 0
    /\ DeDeserialize(ElementText(encode_result.val))
    /\ UNCHANGED <<codecVars, serVars, restVars>>

\* the accumulator is finalized
RtFinalize ==
    /\ de_calls = 1
    /\ DeFinalize
    /\ UNCHANGED <<codecVars, serVars, restVars>>

NextRoundTrip == RtSerialize \/ RtDeserialize \/ RtFinalize

SpecRoundTrip == InitRoundTrip /\ [][NextRoundTrip]_vars


(***************************************************************************)
(* The claims about the codec.                                             *)
(***************************************************************************)
\* C1: for every string s, encode(s) succeeds without panicking and
\* decode(encode(s)) returns exactly s.
C1_EntityRoundTrip ==
    /\ encode_result # NoResult => encode_result.kind = "Ok"
    /\ roundtrip_result # NoResult =>
           roundtrip_result.kind = "Ok" /\ roundtrip_result.val = codec_input

\* the table of the five predefined entities, as the specification gives it
RefTable ==
    { <<Entity(<<97, 109, 112>>), AMP>>,
      <<Entity(<<108, 116>>), LT>>,
      <<Entity(<<103, 116>>), GT>>,
      <<Entity(<<113, 117, 111, 116>>), QUOT>>,
      <<Entity(<<97, 112, 111, 115>>), APOS>> }

\* s starts with p
StartsWith(s, p) == Len(s) >= Len(p) /\ SubSeq(s, 1, Len(p)) = p

\* one pass from the left: a complete entity at the front is replaced by
\* its character and skipped, any other byte is copied
RECURSIVE RefDecode(_)
RefDecode(s) ==
    IF s = <<>> THEN <<>>
    ELSE IF \E e \in RefTable : StartsWith(s, e[1])
    THEN LET e == CHOOSE x \in RefTable : StartsWith(s, x[1])
         IN  <<e[2]>> \o RefDecode(SubSeq(s, Len(e[1]) + 1, Len(s)))
    ELSE <<s[1]>> \o RefDecode(Tail(s))

\* C8: what decode returns is the input with every complete occurrence of
\* the five entities replaced by its character in one pass from the left,
\* every other byte copied in order, replaced text never scanned again.
C8_DecodeSinglePass ==
    decode_result.kind = "Ok" => decode_result.val = RefDecode(codec_input)

\* "&amp;amp;" was decoded to "&amp;"
C8_Witness ==
    /\ codec_input = Entity(EntAmp) \o EntAmp \o <<SEMI>>
    /\ decode_result.kind = "Ok"
    /\ decode_result.val = Entity(EntAmp)

\* the offset (1-based) of the first ';' of s, 0 when s has none
RECURSIVE FirstSemi(_)
FirstSemi(s) ==
    IF s = <<>> THEN 0
    ELSE IF s[1] = SEMI THEN 1
    ELSE LET k == FirstSemi(Tail(s)) IN IF k = 0 THEN 0 ELSE k + 1

\* reading from the left, an entity is opened by '&' and closed by the
\* next ';': it is bad when its body is not in the table, or when a fifth
\* byte other than ';' follows the '&'
RECURSIVE RefBadEntity(_)
RefBadEntity(s) ==
    IF s = <<>> THEN FALSE
    ELSE IF s[1] # AMP THEN RefBadEntity(Tail(s))
    ELSE LET rest == Tail(s)
             k == FirstSemi(rest)
         IN  IF k = 0 THEN Len(rest) >= 5
             ELSE IF k > 5 THEN TRUE
             ELSE IF \E e \in RefTable : e[1] = <<AMP>> \o SubSeq(rest, 1, k)
             THEN RefBadEntity(SubSeq(rest, k + 1, Len(rest)))
             ELSE TRUE

\* C9: when a ';' closes an entity body that is not amp, lt, gt, quot or
\* apos, or a fifth byte other than ';' arrives inside an entity, decode
\* returns invalid-entity and no decoded text.
C9_DecodeRejectsBadEntity ==
    (decode_result # NoResult /\ RefBadEntity(codec_input)) =>
        /\ decode_result.kind = "Err"
        /\ decode_result.err = "InvalidEntity"
        /\ decode_result.val = <<>>

\* "&;" was rejected: the empty body
C9_Witness ==
    /\ codec_input = <<AMP, SEMI>>
    /\ decode_result.kind = "Err"
    /\ decode_result.err = "InvalidEntity"

(***************************************************************************)
(* The claims about the serializer.                                        *)
(***************************************************************************)
\* the fragments of the output as one string
RECURSIVE Flatten(_)
Flatten(frags) ==
    IF frags = <<>> THEN "" ELSE frags[1] \o Flatten(Tail(frags))

\* what the last step wrote
Written == SubSeq(serializer.output, last.at + 1, Len(serializer.output))

\* the declared default namespace of the innermost element of a stack of
\* open elements, "" outside the root
DeclaredDefault(stack) ==
    IF stack = <<>> THEN "" ELSE stack[Len(stack)].c.default

\* C2: after an element's footer the default namespace the serializer
\* tracks is the one it tracked immediately before that element's header.
C2_NamespaceScopeRestore ==
    last.op = "close" =>
        serializer.parent_default_namespace = last.entry_default

\* C3: an element's start tag carries xmlns="..." exactly when its declared
\* default namespace differs from the declared default of the nearest
\* enclosing element that is still open ("" for the root).
C3_NoRedundantXmlns ==
    last.op = "open" =>
        LET outer == DeclaredDefault(SubSeq(open, 1, Len(open) - 1))
            declared == DeclaredDefault(open)
        IN  (\E i \in DOMAIN Written : Written[i] = " xmlns=\"")
                <=> declared # outer

\* the prefixes the open elements bind to a namespace
PrefixesInScope(uri) ==
    {x[1] : x \in {y \in UNION {Range(open[i].c.prefixes) : i \in DOMAIN open} :
                      y[2] = uri}}

\* C4: a scalar child field is written with no prefix and no xmlns when its
\* namespace is the effective default; else as <prefix:name> with no xmlns
\* when its namespace is bound to a prefix in scope; else as
\* <name xmlns="uri">.
C4_WrapperNaming ==
    last.op = "field" =>
        LET c == open[Len(open)].c
            f == CHOOSE x \in Range(c.fields) : x.name = last.name
            uri == IF f.ns.kind = "Literal" THEN f.ns.val
                   ELSE IF f.ns.kind = "Prefix" THEN PrefixValue(c, f.ns.val)
                   ELSE c.default
            text == Flatten(Written)
        IN  IF uri = c.default
            THEN text = "<" \o f.name \o ">" \o f.text
                            \o "</" \o f.name \o ">"
            ELSE IF PrefixesInScope(uri) # {}
            THEN \E p \in PrefixesInScope(uri) :
                    text = "<" \o p \o ":" \o f.name \o ">" \o f.text
                               \o "</" \o p \o ":" \o f.name \o ">"
            ELSE text = "<" \o f.name \o " xmlns=\"" \o uri \o "\">"
                            \o f.text \o "</" \o f.name \o ">"

(***************************************************************************)
(* The claims about the value adapters.                                    *)
(***************************************************************************)
\* C5: for every adapter whose accumulator is once-optional, deserialize
\* called on an accumulator that already holds a value returns
\* duplicate-value.
C5_DuplicateDetection ==
    (de_calls >= 1 /\ de_ty[1] # "Vec" /\ de_had) =>
        de_result = "DuplicateValue"

\* the value an element text stands for: a digit's number for u8, the
\* decoded text for String
RefValue(ty, t) == IF ty = "u8" THEN t[1] - 48 ELSE RefDecode(t)

\* C6: a sequence field's accumulator starts empty and holds the values of
\* the successful occurrences so far, in document order; it finalizes to
\* that sequence, the empty one with no occurrence, never to
\* missing-value.
C6_SequenceAccumulation ==
    de_ty[1] = "Vec" =>
        /\ Len(de_acc) = Len(de_log)
        /\ \A i \in DOMAIN de_log :
               de_acc[i] = RefValue(de_ty[2], de_log[i].val)
        /\ de_final.err # "NotCalled" =>
               de_final.ok /\ de_final.val = de_acc

\* <x>1</x><x>2</x><x>3</x> gave [1, 2, 3]
C6_Witness ==
    /\ de_ty = <<"Vec", "u8">>
    /\ de_acc = <<1, 2, 3>>
    /\ de_final.ok

\* a complete predefined entity occurs in t
HasEntity(t) ==
    \E i \in DOMAIN t :
        \E e \in RefTable : StartsWith(SubSeq(t, i, Len(t)), e[1])

\* a &str field is offered its first text
StrOffered ==
    /\ de_ty = <<"&str">>
    /\ de_calls = 1
    /\ de_text.some

\* C7 as stated: deserializing a &str from element text succeeds, with a
\* slice of the input, exactly when decoding the text required no
\* substitution, and fails with unexpected-value when one was required.
C7_AsStated ==
    StrOffered =>
        /\ de_result = "Ok" <=> ~HasEntity(de_text.val)
        /\ HasEntity(de_text.val) => de_result = "UnexpectedValue"

\* C7 as amended: a text holding an invalid entity fails with
\* invalid-entity; any other text succeeds, with the text itself as the
\* value, exactly when it holds no entity to substitute, and fails with
\* unexpected-value when it holds one.
C7_BorrowCorrectness ==
    StrOffered =>
        IF RefBadEntity(de_text.val)
        THEN de_result = "InvalidEntity"
        ELSE /\ de_result = "Ok" <=> ~HasEntity(de_text.val)
             /\ de_result = "Ok" =>
                    de_acc.some /\ de_acc.val = de_text.val
             /\ HasEntity(de_text.val) => de_result = "UnexpectedValue"

\* "a&amp;b" was refused
C7_Witness ==
    /\ StrOffered
    /\ de_text.val = <<97>> \o Entity(EntAmp) \o <<98>>
    /\ de_result = "UnexpectedValue"

\* C10: an owned string field deserialized from an element with no text
\* has the empty string as its value, and finalizes to it, not to
\* missing-value.
C10_EmptyElementText ==
    (de_ty = <<"String">> /\ de_calls = 1 /\ ~de_text.some
        /\ de_result = "Ok") =>
        /\ de_acc.some /\ de_acc.val = <<>>
        /\ de_final.err # "NotCalled" => de_final.ok

(***************************************************************************)
(* The claims about the round trip of a scalar.                            *)
(***************************************************************************)
\* C11: an owned string or a char serialized as a scalar child field and
\* deserialized from the text written into the same type gives the value
\* back: the serialization succeeds, the deserialization succeeds, and the
\* accumulator finalizes to the value.
C11_ScalarRoundTrip ==
    /\ encode_result.kind \in {"None", "Ok"}
    /\ de_calls = 1 => de_result = "Ok"
    /\ de_final.err # "NotCalled" =>
           /\ de_final.ok
           /\ IF de_ty = <<"char">>
              THEN de_final.val = Chars(codec_input)[1]
              ELSE de_final.val = codec_input

(***************************************************************************)
(* The claims about Option<T> and Cow fields.                              *)
(***************************************************************************)
\* C12: the accumulator of an Option<T> field finalizes to None when no
\* occurrence was accepted and to Some(v) when the inner accumulator
\* holds v, never to missing-value; an occurrence offered to an
\* accumulator that holds a value fails with duplicate-value.
C12_OptionFinalize ==
    de_ty[1] = "Option" =>
        /\ de_final.err # "NotCalled" =>
               /\ de_final.ok
               /\ de_log = <<>> => ~de_final.val.some
               /\ de_acc.value.some => de_final.val = Some(de_acc.value.val)
        /\ (de_calls >= 1 /\ de_had) => de_result = "DuplicateValue"

(***************************************************************************)
(* The claims about the start tag of an element.                           *)
(***************************************************************************)
\* the open elements enclosing the innermost one that bind a namespace
Binders(uri) ==
    {i \in 1..(Len(open) - 1) :
        \E x \in Range(open[i].c.prefixes) : x[2] = uri}

\* the prefix the outermost enclosing element binding a namespace gave it
OuterPrefix(uri) ==
    LET i == CHOOSE k \in Binders(uri) : \A m \in Binders(uri) : k <= m
        x == CHOOSE y \in Range(open[i].c.prefixes) : y[2] = uri
    IN  x[1]

\* the xmlns: declarations of a namespace in what the last step wrote
Declarations(uri) ==
    {i \in DOMAIN Written :
        /\ Written[i] = " xmlns:"
        /\ i + 3 <= Len(Written)
        /\ Written[i + 3] = uri}

\* C13: the start tag of an element declares no prefix for a namespace an
\* enclosing open element has bound, and declares a namespace no
\* enclosing element has bound exactly once; a field in a prefix of a
\* namespace an enclosing element has bound is written with the prefix
\* that element gave the namespace.
C13_NoPrefixRedeclaration ==
    /\ last.op = "open" =>
           \A x \in Range(open[Len(open)].c.prefixes) :
               Cardinality(Declarations(x[2])) =
                   IF Binders(x[2]) # {} THEN 0 ELSE 1
    /\ last.op = "field" =>
           LET c == open[Len(open)].c
               f == CHOOSE x \in Range(c.fields) : x.name = last.name
           IN  (f.ns.kind = "Prefix" /\ Binders(PrefixValue(c, f.ns.val)) # {})
                   => LET q == OuterPrefix(PrefixValue(c, f.ns.val))
                      IN  Flatten(Written) =
                              "<" \o q \o ":" \o f.name \o ">" \o f.text
                                  \o "</" \o q \o ":" \o f.name \o ">"

\* <Outer xmlns:bar="BAZ"><Inner xmlns:baz="QUX" id="7" kind="k"> and the
\* field i of Inner, in foo, written <bar:i>2</bar:i>
C13_Witness ==
    /\ last.op = "field"
    /\ Len(open) = 2
    /\ open[1].c.name = "Outer"
    /\ open[2].c.name = "Inner"
    /\ last.name = "i"
    /\ Flatten(serializer.output) =
           "<Outer xmlns:bar=\"BAZ\">"
               \o "<Inner xmlns:baz=\"QUX\" id=\"7\" kind=\"k\">"
               \o "<bar:i>2</bar:i>"

\* the declarations of the bindings of c no enclosing element has bound,
\* in the order `pairs`
RECURSIVE NewDeclarations(_)
NewDeclarations(pairs) ==
    IF pairs = <<>> THEN <<>>
    ELSE (IF Binders(pairs[1][2]) = {}
          THEN <<" xmlns:", pairs[1][1], "=\"", pairs[1][2], "\"">>
          ELSE <<>>)
         \o NewDeclarations(Tail(pairs))

\* the attribute-role fields as written, in the order `attrs`
RECURSIVE AttributesWritten(_)
AttributesWritten(attrs) ==
    IF attrs = <<>> THEN <<>>
    ELSE <<" ", attrs[1].name, "=", "\"", attrs[1].text, "\"">>
         \o AttributesWritten(Tail(attrs))

\* the start tag of c with the prefixes declared in the order `pairs`
StartTagIs(c, pairs) ==
    \E d \in {<<>>, <<" xmlns=\"", c.default, "\"">>} :
        Written = <<"<", c.name>> \o d \o NewDeclarations(pairs)
                      \o AttributesWritten(c.attrs) \o <<">">>

\* C14: a start tag holds, after the element's name (and its
\* xmlns), the xmlns: declarations of the bindings new to the element in
\* the bindings' declaration order, then the attribute-role fields in
\* field declaration order, then '>'.
C14_AsStated ==
    last.op = "open" =>
        StartTagIs(open[Len(open)].c, open[Len(open)].c.prefixes)

(***************************************************************************)
(* The claims about the forwarding enum.                                   *)
(***************************************************************************)
\* C15: the serialize of a value of the forwarding enum writes exactly the
\* element of the selected variant's inner type, with no element for the
\* enum; deserializing it selects the variant the element matches and gives
\* the value back; an element that matches no variant gives
\* unexpected-tag.
C15_ForwardRoundTrip ==
    /\ fw_doc.st # "None" =>
           /\ fw_doc.st = "Ok"
           /\ fw_doc.name = fw_value.variant
           /\ fw_doc.child = (IF fw_value.variant = "Bar" THEN "bar" ELSE "baz")
    /\ fw_back.src = "own" =>
           fw_back.res = "Ok" /\ fw_back.value = fw_value
    /\ fw_back.src = "foreign" => fw_back.res = "UnexpectedTag"

(***************************************************************************)
(* The claims about the serialize of a display-based scalar.               *)
(***************************************************************************)
\* C16: a serialize that succeeded with a field Id made exactly the calls
\* write_start, end_start, write_str, write_close, in that order,
\* write_close with the prefix write_start returned and the field's name;
\* with no field Id it made the one call write_str.
C16_ScalarWrapping ==
    disp_result = "Ok" =>
        IF disp_field.some
        THEN /\ Len(disp_calls) = 4
             /\ disp_calls[1].op = "write_start"
             /\ disp_calls[1].name = disp_field.name
             /\ disp_calls[1].ns = disp_field.ns
             /\ disp_calls[2].op = "end_start"
             /\ disp_calls[3] = CallWriteStr(disp_value)
             /\ disp_calls[4].op = "write_close"
             /\ disp_calls[4].prefix = disp_calls[1].ret
             /\ disp_calls[4].name = disp_field.name
        ELSE disp_calls = <<CallWriteStr(disp_value)>>

\* <bar:flag>true</bar:flag> was written
C16_Witness ==
    /\ disp_result = "Ok"
    /\ disp_field = SomeField("flag", "BAZ")
    /\ disp_value = "true"
    /\ Len(disp_calls) = 4
    /\ disp_calls[1].ret = SomePrefix("bar")
    /\ disp_calls[4] = CallWriteClose(SomePrefix("bar"), "flag")

(***************************************************************************)
(* The claims about a Cow field.                                           *)
(***************************************************************************)
\* C17: a Cow deserialized from an element text is a borrowed view of the
\* input when the text holds no entity, and an owned copy only when it
\* holds one.
C17_CowBorrows ==
    (de_ty = <<"Cow">> /\ de_calls = 1 /\ de_text.some /\ de_result = "Ok")
        => /\ de_acc.some
           /\ de_acc.val.cow = "Borrowed" <=> ~HasEntity(de_text.val)

(***************************************************************************)
(* The claims about the pending field context.                             *)
(***************************************************************************)
\* C18: set_field_context succeeds exactly when no context is pending, and
\* then the context handed is the pending one; when one is pending it
\* fails (unexpected-state) and the pending context is unchanged;
\* consume_field_context returns the pending context and leaves none
\* pending.
C18_FieldContextProtocol ==
    /\ ctx_last.op = "set" =>
           /\ ctx_last.ok <=> ~ctx_last.before.some
           /\ ctx_last.ok => serializer.next_field_context = ctx_last.arg
           /\ ~ctx_last.ok =>
                  /\ ctx_last.err = "UnexpectedState"
                  /\ serializer.next_field_context = ctx_last.before
    /\ ctx_last.op = "consume" =>
           /\ ctx_last.ret = ctx_last.before
           /\ ~serializer.next_field_context.some

\* a second set_field_context failed and left the first context pending
C18_Witness ==
    /\ ctx_last.op = "set"
    /\ ~ctx_last.ok
    /\ ctx_last.before.some
    /\ ctx_last.arg # ctx_last.before
    /\ serializer.next_field_context = ctx_last.before

(***************************************************************************)
(* The claims about the end of the input of decode.                        *)
(***************************************************************************)
\* reading from the left, the part of s from the '&' of an entity that the
\* end of s leaves open, with at most 4 bytes after the '&'; <<>> when s
\* ends outside an entity or holds a bad entity
RECURSIVE OpenTail(_)
OpenTail(s) ==
    IF s = <<>> THEN <<>>
    ELSE IF s[1] # AMP THEN OpenTail(Tail(s))
    ELSE LET rest == Tail(s)
             k == FirstSemi(rest)
         IN  IF k = 0 THEN (IF Len(rest) <= 4 THEN s ELSE <<>>)
             ELSE IF k > 5 THEN <<>>
             ELSE IF \E e \in RefTable : e[1] = <<AMP>> \o SubSeq(rest, 1, k)
             THEN OpenTail(SubSeq(rest, k + 1, Len(rest)))
             ELSE <<>>

\* C19: when the input ends inside an entity, an '&' followed by at most 4
\* bytes and no ';', decode succeeds, what it returns ends with the bytes
\* from that '&' on unchanged, and it is the whole input, borrowed, when
\* no entity was decoded before.
C19_UnterminatedEntity ==
    (decode_result # NoResult /\ OpenTail(codec_input) # <<>>) =>
        LET tail == OpenTail(codec_input)
            val == decode_result.val
        IN  /\ decode_result.kind = "Ok"
            /\ Len(val) >= Len(tail)
            /\ SubSeq(val, Len(val) - Len(tail) + 1, Len(val)) = tail
            /\ ~HasEntity(codec_input) =>
                   decode_result.cow = "Borrowed" /\ val = codec_input

\* "&amp;&amp" was decoded to "&&amp"
C19_Witness ==
    /\ codec_input = Entity(EntAmp) \o <<AMP>> \o EntAmp
    /\ decode_result.kind = "Ok"
    /\ decode_result.cow = "Owned"
    /\ decode_result.val = <<AMP, AMP>> \o EntAmp

=============================================================================
